---- MODULE Spec2Model ----
(***************************************************************************)
(* Model of the WHIZ LITE image relay (src/index.js): the sliding-window   *)
(* rate limiter (isRateLimited / recordUpload over userUploads) and the    *)
(* per-image 'photo' handler, one asynchronous task per inbound image,     *)
(* interleaved at its await points.                                        *)
(*                                                                         *)
(* Time is in milliseconds, counted from the start of the process (only    *)
(* differences of Date.now() values are ever used by the code).            *)
(*                                                                         *)
(* src/unnamed/part_000 is the same program without the getFile /          *)
(* path.basename step (and without the web server): its handler goes from  *)
(* the processing message straight to the file stream.  The quota code is  *)
(* identical in both files.                                                *)
(***************************************************************************)
EXTENDS Integers, Sequences, FiniteSets

(* ---------------- program constants ---------------- *)
UPLOAD_LIMIT == 5
TIME_WINDOW_MS == 3600000
MS_PER_MINUTE == 60000
OWNER_ID == 1

(* ---------------- bounds of the model ---------------- *)
MaxMsgs == 2        \* inbound photo events delivered in one run
MaxTicks == 2       \* clock advances in one run

Users == {OWNER_ID, 2}
Handlers == {"h1", "h2"}
NoUser == 0
\* the clock advances by 1 ms or by one millisecond less than the window
TickSteps == {1, TIME_WINDOW_MS - 1}
\* A run starts when every identity has k successful uploads behind it, all
\* recorded in millisecond 0 and no handler in flight: the map the program
\* reaches from the empty one by k uncontended successful handlers per identity.
InitCounts == {0, UPLOAD_LIMIT - 1, UPLOAD_LIMIT}

VARIABLES
  now,               \* Date.now()
  ticks,             \* clock advances so far
  msgs,              \* photo events delivered so far
  userUploads,       \* userUploads[userId]: sequence of timestamps ([] when absent)
  pc,                \* position of each handler task
  userId,            \* msg.from.id of the image a handler works on
  checkNow,          \* local `now` of the handler's isRateLimited call
  userTimestamps,    \* userUploads[userId] as that call found it (its local `userTimestamps`)
  isLimited,         \* destructured result of that call
  timeToWaitMin,
  processingMessage, \* "undefined", or the text state of the message sent at line 136
  telegraphLink,     \* "unset", "link" or "null"
  settled            \* what the promise the handler awaited last settled with

vars == <<now, ticks, msgs, userUploads, pc, userId, checkNow, userTimestamps,
          isLimited, timeToWaitMin, processingMessage, telegraphLink, settled>>

(* ---------------- pure helpers ---------------- *)
\* Math.ceil(x / d) for integers x and d > 0 (\div rounds toward minus infinity).
\* The code divides by 1000 and then by 60 in double precision; the rounding
\* error of the two divisions is far below 1/60000, so the ceiling is exact.
Ceil_Floor(x, d) == x \div d
Ceil(x, d) == -((-x) \div d)

\* Math.min(...seq) of a non-empty sequence
Min_Last(seq) == seq[Len(seq)]
Min(seq) == CHOOSE m \in {seq[i] : i \in DOMAIN seq} :
              \A i \in DOMAIN seq : m <= seq[i]

\* the filter predicate ts => now - ts < TIME_WINDOW_MS
InWindow_Inclusive(t, ts) == t - ts <= TIME_WINDOW_MS
InWindow(t, ts) == t - ts < TIME_WINDOW_MS

\* userTimestamps.filter(...)
RelevantTimestamps(seq, t) == SelectSeq(seq, LAMBDA ts : InWindow(t, ts))

\* the owner test of isRateLimited
IsOwner_Never(u) == FALSE
IsOwner(u) == u = OWNER_ID

\* the limit test of isRateLimited
AtLimit(relevant) == Len(relevant) >= UPLOAD_LIMIT

\* timeToWaitMin of a denied check
TimeToWaitMin(relevant, t) ==
  Ceil((Min(relevant) + TIME_WINDOW_MS) - t, MS_PER_MINUTE)

\* isRateLimited(userId) called at time t on the stored sequence seq:
\* the result, and the sequence userUploads[userId] holds afterwards
IsRateLimited_Speculative(u, seq, t) ==
  IF u = OWNER_ID
  THEN [isLimited |-> FALSE, timeToWaitMin |-> 0, stored |-> seq]
  ELSE LET relevant == SelectSeq(seq, LAMBDA ts : t - ts < TIME_WINDOW_MS) IN
       IF Len(relevant) >= UPLOAD_LIMIT
       THEN [isLimited |-> TRUE,
             timeToWaitMin |-> Ceil((Min(relevant) + TIME_WINDOW_MS) - t, MS_PER_MINUTE),
             stored |-> relevant]
       ELSE [isLimited |-> FALSE, timeToWaitMin |-> 0, stored |-> Append(relevant, t)]
IsRateLimited(u, seq, t) ==
  IF IsOwner(u)
  THEN [isLimited |-> FALSE, timeToWaitMin |-> 0, stored |-> seq]
  ELSE LET relevant == RelevantTimestamps(seq, t) IN
       IF AtLimit(relevant)
       THEN [isLimited |-> TRUE, timeToWaitMin |-> TimeToWaitMin(relevant, t),
             stored |-> relevant]
       ELSE [isLimited |-> FALSE, timeToWaitMin |-> 0, stored |-> relevant]

\* recordUpload(userId) at time t
RecordUpload_Shared(uploads, u, t) == [v \in DOMAIN uploads |-> Append(uploads[v], t)]
RecordUpload(uploads, u, t) == [uploads EXCEPT ![u] = Append(@, t)]

\* uploadToTelegraph: the link, or null on every other outcome
UploadResponses == {"src", "emptysrc", "nosrc", "http500", "timeout", "neterr"}
UploadToTelegraph_AnyBody(resp) ==
  IF resp \in {"src", "emptysrc", "nosrc"} THEN "link" ELSE "null"
UploadToTelegraph(resp) == IF resp = "src" THEN "link" ELSE "null"

(* ---------------- handler positions ---------------- *)
\* "unhandled": the handler's promise, or one it left floating, rejected with
\* nothing to catch it
Terminal == {"idle", "ignored", "denied", "done", "unhandled"}
InFlight == {"awaitNotice", "awaitProcessing", "awaitGetFile", "awaitStream",
             "awaitUpload", "awaitEditSuccess", "awaitEditFail", "awaitEditError"}

\* the branch on isLimited (lines 129-136)
AfterCheck_NoReturn(limited) == "awaitProcessing"
AfterCheck(limited) == IF limited THEN "awaitNotice" ELSE "awaitProcessing"

\* the catch block: edit the processing message if it exists, else finish
Catch(pm) == IF pm # "undefined" THEN "awaitEditError" ELSE "done"

\* after await bot.getFile (lines 140-145): path.basename throws a TypeError
\* when fileDetails.file_path is missing, a rejection is thrown by the await
GetFileResults == {"file", "fileNoPath", "getFileFailed"}
AfterGetFile(r, pm) == IF r = "file" THEN "awaitStream" ELSE Catch(pm)

\* after await streamToBuffer (lines 87-94, 146): 'end' resolves with the
\* concatenated chunks, 'error' rejects and the chunks read so far are dropped
StreamEvents == {"end", "streamError"}
AfterStream_Partial(ev, pm) == "awaitUpload"
AfterStream(ev, pm) == IF ev = "end" THEN "awaitUpload" ELSE Catch(pm)

\* the branch on telegraphLink after the submit stage
AfterUpload_Retry(link) == IF link = "link" THEN "awaitEditSuccess" ELSE "awaitUpload"
AfterUpload(link) == IF link = "link" THEN "awaitEditSuccess" ELSE "awaitEditFail"

\* userUploads after the handler's success edit resolved (line 155)
Commit_Twice(uploads, u, t) == RecordUpload(RecordUpload(uploads, u, t), u, t)
Commit(uploads, u, t) == RecordUpload(uploads, u, t)

\* userUploads after the handler's failure edit resolved (lines 156-162)
NoCommit_Records(uploads, u, t) == RecordUpload(uploads, u, t)
NoCommit(uploads, u, t) == uploads

TypeOK ==
  /\ now \in Nat /\ ticks \in 0..MaxTicks /\ msgs \in 0..MaxMsgs
  /\ DOMAIN userUploads = Users
  /\ \A u \in Users : userUploads[u] \in Seq(Nat)
  /\ pc \in [Handlers -> Terminal \cup InFlight]
  /\ userId \in [Handlers -> Users \cup {NoUser}]
  /\ isLimited \in [Handlers -> BOOLEAN]
  /\ timeToWaitMin \in [Handlers -> Int]
  /\ processingMessage \in [Handlers -> {"undefined", "processing", "success", "failed", "error"}]
  /\ telegraphLink \in [Handlers -> {"unset", "link", "null"}]
  /\ settled \in [Handlers -> {"none", "sent", "sendFailed", "edited", "editFailed"}
                                \cup GetFileResults \cup StreamEvents \cup UploadResponses]

Init ==
  /\ now = 0 /\ ticks = 0 /\ msgs = 0
  /\ \E k \in InitCounts : userUploads = [u \in Users |-> [i \in 1..k |-> 0]]
  /\ pc = [h \in Handlers |-> "idle"]
  /\ userId = [h \in Handlers |-> NoUser]
  /\ checkNow = [h \in Handlers |-> 0]
  /\ userTimestamps = [h \in Handlers |-> <<>>]
  /\ isLimited = [h \in Handlers |-> FALSE]
  /\ timeToWaitMin = [h \in Handlers |-> 0]
  /\ processingMessage = [h \in Handlers |-> "undefined"]
  /\ telegraphLink = [h \in Handlers |-> "unset"]
  /\ settled = [h \in Handlers |-> "none"]

(* ---------------- actions ---------------- *)
\* the clock advances
Tick ==
  /\ ticks < MaxTicks
  /\ \E d \in TickSteps : now' = now + d
  /\ ticks' = ticks + 1
  /\ UNCHANGED <<msgs, userUploads, pc, userId, checkNow, userTimestamps,
                 isLimited, timeToWaitMin, processingMessage, telegraphLink, settled>>

\* the locals of the quota check and the link are dead once the handler has
\* returned; userId and the message state are kept for the record
DropLocals(h) ==
  /\ checkNow' = [checkNow EXCEPT ![h] = 0]
  /\ userTimestamps' = [userTimestamps EXCEPT ![h] = <<>>]
  /\ isLimited' = [isLimited EXCEPT ![h] = FALSE]
  /\ timeToWaitMin' = [timeToWaitMin EXCEPT ![h] = 0]
  /\ telegraphLink' = [telegraphLink EXCEPT ![h] = "unset"]
  /\ settled' = [settled EXCEPT ![h] = "none"]

\* handler h, whose awaited promise settled with v, moves to position p with
\* its message in state pm and its telegraphLink link; the clock and the event
\* count stay
Goto(h, p, pm, link, v) ==
  /\ pc' = [pc EXCEPT ![h] = p]
  /\ processingMessage' = [processingMessage EXCEPT ![h] = pm]
  /\ IF p \in Terminal
     THEN DropLocals(h)
     ELSE /\ telegraphLink' = [telegraphLink EXCEPT ![h] = link]
          /\ settled' = [settled EXCEPT ![h] = v]
          /\ UNCHANGED <<checkNow, userTimestamps, isLimited, timeToWaitMin>>
  /\ UNCHANGED <<now, ticks, msgs, userId>>

\* a photo event outside a private chat: the handler returns at once, before
\* it reads msg.from.id (line 124)
ReceiveIgnored(h) ==
  /\ pc[h] \in Terminal /\ msgs < MaxMsgs
  /\ msgs' = msgs + 1
  /\ pc' = [pc EXCEPT ![h] = "ignored"]
  /\ userId' = [userId EXCEPT ![h] = NoUser]
  /\ processingMessage' = [processingMessage EXCEPT ![h] = "undefined"]
  /\ DropLocals(h)
  /\ UNCHANGED <<now, ticks, userUploads>>

\* a photo event in a private chat: the synchronous prefix of the handler,
\* up to the first sendMessage call (lines 124-136)
ReceiveWithin(h, maxMsgs) ==
  /\ pc[h] \in Terminal /\ msgs < maxMsgs
  /\ msgs' = msgs + 1
  /\ \E u \in Users :
       LET r == IsRateLimited(u, userUploads[u], now) IN
       /\ userId' = [userId EXCEPT ![h] = u]
       /\ checkNow' = [checkNow EXCEPT ![h] = now]
       /\ userTimestamps' = [userTimestamps EXCEPT ![h] = userUploads[u]]
       /\ userUploads' = [userUploads EXCEPT ![u] = r.stored]
       /\ isLimited' = [isLimited EXCEPT ![h] = r.isLimited]
       /\ timeToWaitMin' = [timeToWaitMin EXCEPT ![h] = r.timeToWaitMin]
       /\ pc' = [pc EXCEPT ![h] = AfterCheck(r.isLimited)]
  /\ processingMessage' = [processingMessage EXCEPT ![h] = "undefined"]
  /\ telegraphLink' = [telegraphLink EXCEPT ![h] = "unset"]
  /\ settled' = [settled EXCEPT ![h] = "none"]
  /\ UNCHANGED <<now, ticks>>

Receive(h) == ReceiveWithin(h, MaxMsgs)

\* the rate-limit notice (line 130) settles; its promise is neither awaited
\* nor given a rejection handler
NoticeSettle(h) ==
  /\ pc[h] = "awaitNotice"
  /\ \E ok \in BOOLEAN :
       Goto(h, IF ok THEN "denied" ELSE "unhandled", processingMessage[h], telegraphLink[h],
            IF ok THEN "sent" ELSE "sendFailed")
  /\ UNCHANGED userUploads

\* await bot.sendMessage(chatId, 'Processing your image...') settles (line 136)
ProcessingSettle(h) ==
  /\ pc[h] = "awaitProcessing"
  /\ \E ok \in BOOLEAN :
       IF ok THEN Goto(h, "awaitGetFile", "processing", telegraphLink[h], "sent")
             ELSE Goto(h, Catch(processingMessage[h]), processingMessage[h], telegraphLink[h],
                       "sendFailed")
  /\ UNCHANGED userUploads

\* await bot.getFile(fileId) settles, then path.basename(fileDetails.file_path)
\* (lines 140-145); basename throws on a missing file_path
GetFileSettle(h) ==
  /\ pc[h] = "awaitGetFile"
  /\ \E r \in GetFileResults :
       Goto(h, AfterGetFile(r, processingMessage[h]), processingMessage[h], telegraphLink[h], r)
  /\ UNCHANGED userUploads

\* await streamToBuffer(photoStream) settles with 'end' or 'error' (line 146);
\* a stream that emits neither leaves the handler here
StreamSettle(h) ==
  /\ pc[h] = "awaitStream"
  /\ \E ev \in StreamEvents :
       Goto(h, AfterStream(ev, processingMessage[h]), processingMessage[h], telegraphLink[h], ev)
  /\ UNCHANGED userUploads

\* await uploadToTelegraph(imageBuffer, filename) settles (line 147)
UploadSettle(h) ==
  /\ pc[h] = "awaitUpload"
  /\ \E resp \in UploadResponses :
       LET link == UploadToTelegraph(resp) IN
       Goto(h, AfterUpload(link), processingMessage[h], link, resp)
  /\ UNCHANGED userUploads

\* await bot.editMessageText(success link) settles, then recordUpload (lines 150-155)
EditSuccessSettle(h) ==
  /\ pc[h] = "awaitEditSuccess"
  /\ \E ok \in BOOLEAN :
       IF ok
       THEN /\ userUploads' = Commit(userUploads, userId[h], now)
            /\ Goto(h, "done", "success", telegraphLink[h], "edited")
       ELSE /\ userUploads' = userUploads
            /\ Goto(h, Catch(processingMessage[h]), processingMessage[h], telegraphLink[h],
                    "editFailed")

\* await bot.editMessageText(upload failed) settles (lines 157-161)
EditFailSettle(h) ==
  /\ pc[h] = "awaitEditFail"
  /\ \E ok \in BOOLEAN :
       IF ok
       THEN /\ userUploads' = NoCommit(userUploads, userId[h], now)
            /\ Goto(h, "done", "failed", telegraphLink[h], "edited")
       ELSE /\ userUploads' = userUploads
            /\ Goto(h, Catch(processingMessage[h]), processingMessage[h], telegraphLink[h],
                    "editFailed")

\* await bot.editMessageText('An unexpected error occurred.') in the catch
\* block settles (lines 165-170); its rejection leaves the async handler
EditErrorSettle(h) ==
  /\ pc[h] = "awaitEditError"
  /\ \E ok \in BOOLEAN :
       Goto(h, IF ok THEN "done" ELSE "unhandled",
            IF ok THEN "error" ELSE processingMessage[h], telegraphLink[h],
            IF ok THEN "edited" ELSE "editFailed")
  /\ UNCHANGED userUploads

Next ==
  \/ Tick
  \/ \E h \in Handlers : ReceiveIgnored(h)
  \/ \E h \in Handlers : Receive(h)
  \/ \E h \in Handlers : NoticeSettle(h)
  \/ \E h \in Handlers : ProcessingSettle(h)
  \/ \E h \in Handlers : GetFileSettle(h)
  \/ \E h \in Handlers : StreamSettle(h)
  \/ \E h \in Handlers : UploadSettle(h)
  \/ \E h \in Handlers : EditSuccessSettle(h)
  \/ \E h \in Handlers : EditFailSettle(h)
  \/ \E h \in Handlers : EditErrorSettle(h)

Spec == Init /\ [][Next]_vars

(* ---------------- a run that starts from an aged history ---------------- *)
\* User 2 uploaded once at time 0 and three times at TIME_WINDOW_MS - 1, one
\* handler after the other; the clock has made the one advance this took and
\* the run then sees one photo event more than MaxMsgs.
InitAged ==
  /\ now = TIME_WINDOW_MS - 1 /\ ticks = 1 /\ msgs = 0
  /\ userUploads = [u \in Users |->
                      IF u = OWNER_ID THEN <<>>
                      ELSE <<0, TIME_WINDOW_MS - 1, TIME_WINDOW_MS - 1, TIME_WINDOW_MS - 1>>]
  /\ pc = [h \in Handlers |-> "idle"]
  /\ userId = [h \in Handlers |-> NoUser]
  /\ checkNow = [h \in Handlers |-> 0]
  /\ userTimestamps = [h \in Handlers |-> <<>>]
  /\ isLimited = [h \in Handlers |-> FALSE]
  /\ timeToWaitMin = [h \in Handlers |-> 0]
  /\ processingMessage = [h \in Handlers |-> "undefined"]
  /\ telegraphLink = [h \in Handlers |-> "unset"]
  /\ settled = [h \in Handlers |-> "none"]

NextAged ==
  \/ Tick
  \/ \E h \in Handlers : ReceiveIgnored(h)
  \/ \E h \in Handlers : ReceiveWithin(h, MaxMsgs + 1)
  \/ \E h \in Handlers : NoticeSettle(h)
  \/ \E h \in Handlers : ProcessingSettle(h)
  \/ \E h \in Handlers : GetFileSettle(h)
  \/ \E h \in Handlers : StreamSettle(h)
  \/ \E h \in Handlers : UploadSettle(h)
  \/ \E h \in Handlers : EditSuccessSettle(h)
  \/ \E h \in Handlers : EditFailSettle(h)
  \/ \E h \in Handlers : EditErrorSettle(h)

SpecAged == InitAged /\ [][NextAged]_vars

(* ======================= properties ======================= *)
NonOwners == Users \ {OWNER_ID}

\* number of records of seq younger than the window at time t
InWindowCount(seq, t) ==
  Cardinality({i \in DOMAIN seq : t - seq[i] < TIME_WINDOW_MS})

\* number of occurrences of the timestamp v in seq
Occurrences(seq, v) == Cardinality({i \in DOMAIN seq : seq[i] = v})

Values(seq) == {seq[i] : i \in DOMAIN seq}

\* new holds exactly the records of old that are younger than the window at t
OnlyPruned(old, new, t) ==
  \A v \in Values(old) \cup Values(new) :
    Occurrences(new, v) = IF t - v < TIME_WINDOW_MS THEN Occurrences(old, v) ELSE 0

IsPrefix(a, b) == Len(a) <= Len(b) /\ \A i \in DOMAIN a : a[i] = b[i]

\* handler h runs the synchronous prefix of a private-chat photo event in this step
Checks(h) == pc[h] \in Terminal /\ pc'[h] \in InFlight

\* handler h ends, in this step, an image that was admitted and did not end
\* with the success link shown
FailureEnd(h) ==
  /\ pc[h] \in InFlight \ {"awaitNotice", "awaitEditSuccess"}
  /\ pc'[h] \in {"done", "unhandled"}

\* handler h was admitted when its check saw exactly one free slot
AdmittedOnLastSlot(h) ==
  /\ pc[h] \in InFlight
  /\ userId[h] \in NonOwners
  /\ ~isLimited[h]
  /\ InWindowCount(userTimestamps[h], checkNow[h]) = UPLOAD_LIMIT - 1

\* C1: two handlers in flight at once for one non-owner identity that had
\* exactly one slot left are never both admitted.
C1_NoDoubleAdmission ==
  \A h1, h2 \in Handlers :
    (h1 # h2 /\ userId[h1] = userId[h2])
      => ~(AdmittedOnLastSlot(h1) /\ AdmittedOnLastSlot(h2))

\* C2: when an upload of a non-owner identity is recorded, the identity's
\* stored records inside the current window number at most UPLOAD_LIMIT.
C2_WithinLimitWhenRecorded ==
  [][\A u \in NonOwners :
       Len(userUploads'[u]) > Len(userUploads[u])
         => InWindowCount(userUploads'[u], now') <= UPLOAD_LIMIT]_vars

\* C3 as stated: when an image ends in a failure, the identity's stored
\* sequence still begins with the sequence stored before that image (records
\* of concurrent successes may follow it; nothing else has changed).
C3_FailureKeepsSequence ==
  [][\A h \in Handlers :
       FailureEnd(h) => IsPrefix(userTimestamps[h], userUploads'[userId[h]])]_vars

\* C3 as amended: an image that ends in a failure appends nothing; its quota
\* check only drops the identity's records aged TIME_WINDOW_MS or more (none
\* for the owner) and every later step of it leaves userUploads as it is.
C3_FailureNeverRecords ==
  [][\A h \in Handlers :
       /\ (Checks(h) /\ userId'[h] \in NonOwners)
            => /\ OnlyPruned(userUploads[userId'[h]], userUploads'[userId'[h]], now)
               /\ \A u \in Users \ {userId'[h]} : userUploads'[u] = userUploads[u]
       /\ (Checks(h) /\ userId'[h] = OWNER_ID) => userUploads' = userUploads
       /\ (pc[h] \in InFlight /\ pc'[h] # pc[h]
             /\ ~(pc[h] = "awaitEditSuccess" /\ pc'[h] = "done"))
            => userUploads' = userUploads]_vars

\* a failed image has ended and the records the identity had are all still stored
C3_Witness ==
  \E h \in Handlers :
    /\ pc[h] \in {"done", "unhandled"}
    /\ processingMessage[h] \in {"failed", "error", "processing"}
    /\ userId[h] \in NonOwners
    /\ Len(userUploads[userId[h]]) = UPLOAD_LIMIT - 1
    /\ msgs = 1

\* C4: a non-owner check that finds exactly UPLOAD_LIMIT records inside the
\* window denies, and every denied check reports a wait of at least 1 minute.
C4_DeniedWaitsAtLeastOne ==
  \A h \in Handlers :
    (pc[h] \in InFlight /\ userId[h] \in NonOwners) =>
      /\ InWindowCount(userTimestamps[h], checkNow[h]) = UPLOAD_LIMIT
           => (isLimited[h] /\ pc[h] = "awaitNotice")
      /\ isLimited[h] => timeToWaitMin[h] >= 1

\* a check denied an identity whose fifth record was made during the run
C4_Witness ==
  \E h \in Handlers :
    /\ pc[h] = "awaitNotice" /\ userId[h] \in NonOwners
    /\ Len(userTimestamps[h]) = UPLOAD_LIMIT
    /\ userTimestamps[h][UPLOAD_LIMIT] > 0
    /\ InWindowCount(userTimestamps[h], checkNow[h]) = UPLOAD_LIMIT
    /\ timeToWaitMin[h] >= 1

\* C5: a check for the owner allows with a wait of 0, whatever is stored.
C5_OwnerAlwaysAllowed ==
  \A h \in Handlers :
    (pc[h] \in InFlight /\ userId[h] = OWNER_ID) =>
      /\ ~isLimited[h] /\ timeToWaitMin[h] = 0 /\ pc[h] # "awaitNotice"

\* the owner was admitted with more than UPLOAD_LIMIT fresh records stored
C5_Witness ==
  \E h \in Handlers :
    /\ pc[h] = "awaitProcessing" /\ userId[h] = OWNER_ID
    /\ InWindowCount(userTimestamps[h], checkNow[h]) > UPLOAD_LIMIT

\* C6: a non-owner check at time now leaves stored exactly the earlier records
\* with now - ts < TIME_WINDOW_MS, and decides on those alone.
C6_StaleRecordsExcluded ==
  [][\A h \in Handlers :
       (Checks(h) /\ userId'[h] \in NonOwners) =>
         LET u == userId'[h] IN
         /\ OnlyPruned(userUploads[u], userUploads'[u], now)
         /\ \A i \in DOMAIN userUploads'[u] : now - userUploads'[u][i] < TIME_WINDOW_MS
         /\ isLimited'[h] <=> InWindowCount(userUploads[u], now) >= UPLOAD_LIMIT]_vars

\* a check met UPLOAD_LIMIT records aged exactly TIME_WINDOW_MS, dropped them
\* all and admitted the image
C6_Witness ==
  \E h \in Handlers :
    /\ pc[h] = "awaitProcessing" /\ userId[h] \in NonOwners
    /\ Len(userTimestamps[h]) = UPLOAD_LIMIT
    /\ \A i \in DOMAIN userTimestamps[h] : checkNow[h] - userTimestamps[h][i] = TIME_WINDOW_MS
    /\ userUploads[userId[h]] = <<>>

\* C7: a denied check reports the least w with w minutes >= m + TIME_WINDOW_MS - now,
\* m the smallest in-window timestamp; it is 60 when all records are less than
\* a minute old.
C7_WaitFromOldestRecord ==
  \A h \in Handlers :
    pc[h] = "awaitNotice" =>
      LET inw == {userTimestamps[h][i] : i \in
                    {j \in DOMAIN userTimestamps[h] :
                       checkNow[h] - userTimestamps[h][j] < TIME_WINDOW_MS}}
          m   == CHOOSE v \in inw : \A x \in inw : v <= x
          rem == m + TIME_WINDOW_MS - checkNow[h]
          w   == timeToWaitMin[h]
      IN /\ (w - 1) * MS_PER_MINUTE < rem
         /\ rem <= w * MS_PER_MINUTE
         /\ (checkNow[h] - m < MS_PER_MINUTE => w = 60)

\* five records of the same millisecond and a sixth attempt at once: 60 minutes
C7_Witness ==
  \E h \in Handlers :
    /\ pc[h] = "awaitNotice"
    /\ Len(userTimestamps[h]) = UPLOAD_LIMIT
    /\ \A i \in DOMAIN userTimestamps[h] : userTimestamps[h][i] = checkNow[h]
    /\ timeToWaitMin[h] = 60

\* C8, as a final result: a handler that has ended and had sent the
\* processing message has edited it to a final text.
C8_EndedMeansFinalMessage ==
  \A h \in Handlers :
    pc[h] \in {"done", "unhandled"} => processingMessage[h] # "processing"

\* C9: no handler ends with a rejection that nothing catches.
C9_NoUnhandledRejection ==
  \A h \in Handlers : pc[h] # "unhandled"

\* C10: a record is appended only by the step in which a handler whose submit
\* returned a link sees its success edit resolve and ends; the step appends
\* one record, for that handler's identity, stamped with the current time.
C10_RecordOnlyAfterSuccess ==
  [][\A u \in Users :
       Len(userUploads'[u]) > Len(userUploads[u]) =>
         \E h \in Handlers :
           /\ pc[h] = "awaitEditSuccess" /\ telegraphLink[h] = "link"
           /\ userId[h] = u
           /\ pc'[h] = "done" /\ processingMessage'[h] = "success"
           /\ userUploads'[u] = Append(userUploads[u], now)]_vars

\* an image of a non-owner succeeded and its record is the identity's newest
C10_Witness ==
  \E h \in Handlers :
    /\ pc[h] = "done" /\ processingMessage[h] = "success"
    /\ userId[h] \in NonOwners
    /\ Len(userUploads[userId[h]]) = UPLOAD_LIMIT
    /\ userUploads[userId[h]][UPLOAD_LIMIT] = now
    /\ now > 0

\* handler h takes a step
Acts(h) == pc'[h] # pc[h] \/ settled'[h] # settled[h]

\* C11: the submit stage is entered only by a handler whose file stream ended;
\* a stream error puts the handler on its error path with no link and no
\* submit pending.
C11_StreamErrorSkipsSubmit ==
  \A h \in Handlers :
    /\ pc[h] = "awaitUpload" => settled[h] = "end"
    /\ settled[h] = "streamError" =>
         (pc[h] = "awaitEditError" /\ telegraphLink[h] = "unset")

\* a stream error has been caught and nothing was submitted
C11_Witness ==
  \E h \in Handlers :
    /\ settled[h] = "streamError" /\ pc[h] = "awaitEditError"
    /\ processingMessage[h] = "processing"

\* C12: a denied check leads only to the rate-limit notice, which carries the
\* wait; after it the handler ends without a processing message, a fetch, a
\* submit, an edit or a record.
C12_DeniedIsTerminal ==
  [][\A h \in Handlers :
       /\ isLimited'[h] =>
            /\ pc'[h] = "awaitNotice" /\ timeToWaitMin'[h] >= 1
            /\ processingMessage'[h] = "undefined" /\ telegraphLink'[h] = "unset"
       /\ (pc[h] = "awaitNotice" /\ Acts(h)) =>
            /\ pc'[h] \in {"denied", "unhandled"}
            /\ processingMessage'[h] = "undefined"
            /\ userUploads' = userUploads]_vars

\* a denied image has ended after its notice
C12_Witness ==
  \E h \in Handlers :
    /\ pc[h] = "denied" /\ userId[h] \in NonOwners
    /\ processingMessage[h] = "undefined"
    /\ Len(userUploads[userId[h]]) = UPLOAD_LIMIT

\* the order of the stages of one image
StageRank(p) ==
  CASE p \in {"awaitNotice", "awaitProcessing"} -> 1
    [] p = "awaitGetFile" -> 2
    [] p = "awaitStream" -> 3
    [] p = "awaitUpload" -> 4
    [] p \in {"awaitEditSuccess", "awaitEditFail"} -> 5
    [] p = "awaitEditError" -> 6
    [] OTHER -> 7

\* C13: every step of a handler moves its image to a later stage, so the
\* fetch and the submit are each started at most once per image.
C13_NoStageRestarted ==
  [][\A h \in Handlers :
       (pc[h] \in InFlight /\ Acts(h)) => StageRank(pc'[h]) > StageRank(pc[h])]_vars

\* a submit failed with HTTP 500 and the handler went on to the failure notice
C13_Witness ==
  \E h \in Handlers : pc[h] = "awaitEditFail" /\ settled[h] = "http500"

\* C14: once an edit call has been issued for an image, no second edit call is
\* issued for it.
C14_AtMostOneEdit ==
  [][\A h \in Handlers :
       pc[h] \in {"awaitEditSuccess", "awaitEditFail", "awaitEditError"}
         => pc'[h] \notin {"awaitEditSuccess", "awaitEditFail", "awaitEditError"} \ {pc[h]}]_vars

\* C15: the submit yields the link exactly for a response whose first element
\* has a non-empty src; every other outcome yields null, and the handler then
\* shows the one failure text.
C15_SubmitOutcome ==
  [][\A h \in Handlers :
       /\ settled'[h] = "src" =>
            (telegraphLink'[h] = "link" /\ pc'[h] = "awaitEditSuccess")
       /\ settled'[h] \in UploadResponses \ {"src"} =>
            (telegraphLink'[h] = "null" /\ pc'[h] = "awaitEditFail")
       /\ (pc[h] = "awaitEditFail" /\ pc'[h] = "done") =>
            processingMessage'[h] = "failed"
       /\ (pc[h] = "awaitEditSuccess" /\ pc'[h] = "done") =>
            processingMessage'[h] = "success"]_vars

\* a well-formed response without a src has been mapped to the failure branch
C15_Witness ==
  \E h \in Handlers :
    /\ settled[h] = "emptysrc" /\ pc[h] = "awaitEditFail" /\ telegraphLink[h] = "null"

\* C16: a step of a handler changes the stored records of no identity but its
\* own, and two checks of one identity that meet the same stored sequence at
\* the same time return the same result, whatever is stored for the others.
C16_IdentitiesIndependent ==
  [][\A h \in Handlers :
       /\ Acts(h) => \A u \in Users \ {userId'[h]} : userUploads'[u] = userUploads[u]
       /\ \A g \in Handlers :
            (pc'[h] \in InFlight /\ pc'[g] \in InFlight /\ userId'[h] = userId'[g]
               /\ userTimestamps'[h] = userTimestamps'[g] /\ checkNow'[h] = checkNow'[g])
            => (isLimited'[h] = isLimited'[g] /\ timeToWaitMin'[h] = timeToWaitMin'[g])]_vars

\* user 2 is denied on its own five records while an upload of the owner has
\* been recorded on top of the owner's five
C16_Witness ==
  \E h, g \in Handlers :
    /\ userId[h] \in NonOwners /\ pc[h] = "awaitNotice"
    /\ Len(userUploads[userId[h]]) = UPLOAD_LIMIT
    /\ userId[g] = OWNER_ID /\ pc[g] = "done" /\ processingMessage[g] = "success"
    /\ Len(userUploads[OWNER_ID]) = UPLOAD_LIMIT + 1

\* C17: when a check has denied with a wait of w minutes and the identity's
\* stored records are still the ones that check left, the check run w minutes
\* after it allows.
C17_WaitIsSufficient ==
  \A h \in Handlers :
    (/\ pc[h] = "awaitNotice"
     /\ userUploads[userId[h]] = RelevantTimestamps(userTimestamps[h], checkNow[h]))
    => ~IsRateLimited(userId[h], userUploads[userId[h]],
                      checkNow[h] + timeToWaitMin[h] * MS_PER_MINUTE).isLimited

\* C18: when getFile answers without a file path the handler goes on to fetch
\* the file.
C18_MissingPathFallsBack ==
  \A h \in Handlers : settled[h] = "fileNoPath" => pc[h] = "awaitStream"

\* C19: a check appends nothing, keeps every record of the checked identity
\* that is inside the window, leaves the other identities' records alone, and
\* for the owner changes nothing.
C19_CheckOnlyPrunes ==
  [][\A h \in Handlers :
       Checks(h) =>
         LET u == userId'[h] IN
         /\ \A v \in Values(userUploads'[u]) \cup Values(userUploads[u]) :
              /\ Occurrences(userUploads'[u], v) <= Occurrences(userUploads[u], v)
              /\ now - v < TIME_WINDOW_MS =>
                   Occurrences(userUploads'[u], v) = Occurrences(userUploads[u], v)
         /\ Len(userUploads'[u]) <= Len(userUploads[u])
         /\ \A o \in Users \ {u} : userUploads'[o] = userUploads[o]
         /\ u = OWNER_ID => userUploads' = userUploads]_vars

\* a check dropped four stale records and kept the one inside the window
C19_Witness ==
  \E h \in Handlers :
    /\ pc[h] \in InFlight /\ userId[h] \in NonOwners
    /\ Len(userTimestamps[h]) = UPLOAD_LIMIT
    /\ InWindowCount(userTimestamps[h], checkNow[h]) = 1
    /\ userUploads[userId[h]] = <<TIME_WINDOW_MS - 1>>

\* C20: a handler of a non-owner image whose submit returned the link ends
\* only by the step that appends one record for the identity.
C20_SuccessAlwaysRecorded ==
  [][\A h \in Handlers :
       (/\ pc[h] \in InFlight /\ telegraphLink[h] = "link" /\ userId[h] \in NonOwners
        /\ pc'[h] \in Terminal)
       => Len(userUploads'[userId[h]]) = Len(userUploads[userId[h]]) + 1]_vars

====
